---- MODULE Spec2Model ----
(***************************************************************************)
(* Model of the authentication backend (signup / login over a user        *)
(* collection with unique email and username, bcrypt digests, a signed    *)
(* token delivered as a cookie).                                          *)
(*                                                                         *)
(* A handler runs from one `await` to the next without interruption, so   *)
(* each action below is one such segment of a controller: the model       *)
(* interleaves requests exactly at the awaits on User.findOne and on      *)
(* newUser.save.  Spec runs the requests one after the other (every       *)
(* handler runs to its response before the next request arrives);         *)
(* SpecConc lets them overlap.                                            *)
(*                                                                         *)
(* Request bodies carry strings; Absent stands for a key that is missing  *)
(* from the JSON body.  The database answers every findOne and save (a    *)
(* save is refused only by a unique index).                               *)
(***************************************************************************)
EXTENDS Integers, Sequences, FiniteSets, TLC

\* ------------------------------------------------------------- bounds
NumReqs == 2    \* requests the server holds at once (in flight or answered)
MaxIds  == 2    \* documents constructed (ids handed out) in one run
MaxNow  == 1    \* clock values 0..MaxNow (seconds)

Reqs == 1..NumReqs

\* ------------------------------------------------------------- inputs
Absent == "<absent>"
Names == {"u1", "u2"}
Emails == {"e1", "e2"}
Passwords == {"p1", "p2"}
Salts == {"s1", "s2"}
ConfigValues == {Absent, "", "set"}

FieldValues(S) == S \cup {Absent, ""}

SignupBodies ==
  [username : FieldValues(Names), email : FieldValues(Emails),
   password : FieldValues(Passwords)]

LoginBodies ==
  [username : {Absent}, email : FieldValues(Emails),
   password : FieldValues(Passwords)]

NoBody == [username |-> Absent, email |-> Absent, password |-> Absent]

\* Mutant of Falsy: a test against undefined only, which lets "" through.
FalsyOnlyAbsent(v) == v = Absent

\* JavaScript's `!v` on a string or a missing value.
Falsy(v) == v = Absent \/ v = ""

VARIABLES
  env,      \* process.env: MONGO_URI, JWT_SECRET
  proc,     \* "starting", "connected", "serving", "failed", "exited"
  users,    \* the User collection
  nextId,   \* next _id a new document gets
  now,      \* clock, seconds
  pc,       \* pc[r]: "idle", "findOne", "save", "respond", "done"
  kind,     \* kind[r]: "none", "signup", "login"
  body,     \* body[r]: req.body
  newUser,  \* newUser[r]: the document built by signup ({} before that)
  saved,    \* saved[r]: "none", "ok", "E11000"
  res,      \* res[r]: the response
  pre,      \* history: the collection when the latest request arrived
  last,     \* history: the request that arrived most recently (0: none)
  tokenless \* history: ids of the documents saved by a signup that then
            \* failed to issue its token

vars == <<env, proc, users, nextId, now, pc, kind, body, newUser, saved, res,
          pre, last, tokenless>>

\* ------------------------------------------------------------- bcryptjs
SaltPrefix == "$2a$10$"

Crypt(salt, s) == "h" \o salt \o s

hashpw(s, saltStr) ==
  saltStr \o Crypt(SubSeq(saltStr, Len(SaltPrefix) + 1, Len(saltStr)), s)

HashLen == Len(hashpw("p1", SaltPrefix \o "s1"))
CryptLen == Len(Crypt("s1", "p1"))

\* Mutant of hashSync: the plaintext is stored.
hashSyncPlain(s, salt) == s

hashSync(s, salt) == hashpw(s, SaltPrefix \o salt)

compareSync(s, hash) ==
  IF Len(hash) # HashLen THEN FALSE
  ELSE hashpw(s, SubSeq(hash, 1, Len(hash) - CryptLen)) = hash

\* ------------------------------------------------------------- jsonwebtoken
FourDays == 4 * 24 * 60 * 60

\* Mutant of jwtSign: expiresIn "4h" for "4d".
jwtSignFourHours(id, secret, t) ==
  [id |-> id, iat |-> t, exp |-> t + 4 * 60 * 60, key |-> secret]

jwtSign(id, secret, t) ==
  [id |-> id, iat |-> t, exp |-> t + FourDays, key |-> secret]

\* ------------------------------------------------------------- the store
\* Mutant of Docs: the filter is dropped (findOne({})).
DocsUnfiltered(store, email) == store

Docs(store, email) == {u \in store : u.email = email}

\* Mutant of FindOne: the lookup compares the username.
FindOneByUsername(store, email) ==
  IF \E u \in store : u.username = email
    THEN {CHOOSE u \in store : u.username = email}
    ELSE {}

FindOne(store, email) ==
  IF Docs(store, email) = {} THEN {}
  ELSE {CHOOSE u \in Docs(store, email) :
          \A v \in Docs(store, email) : u._id <= v._id}

\* Mutant of DuplicateKey: username is not declared unique.
DuplicateEmailOnly(store, d) == \E u \in store : u.email = d.email

DuplicateKey(store, d) ==
  \E u \in store : u.email = d.email \/ u.username = d.username

User(id, username, email, password) ==
  [_id |-> id, username |-> username, email |-> email, password |-> password]

\* const { password: pass, ...rest } = doc
Rest(d) == [k \in DOMAIN d \ {"password"} |-> d[k]]

\* ------------------------------------------------------------- responses
NoRes == [status |-> 0, cookies |-> {}, body |-> [success |-> FALSE]]

Json(status, message) ==
  [status |-> status, cookies |-> {},
   body |-> [success |-> FALSE, message |-> message]]

MaxAgeMs == 4 * 24 * 60 * 60 * 1000

Cookie(token) ==
  [name |-> "X_TTMS_access_token", value |-> token, httpOnly |-> TRUE,
   sameSite |-> "lax", maxAge |-> MaxAgeMs]

JsonWithCookie(status, message, token, d) ==
  [status |-> status, cookies |-> {Cookie(token)},
   body |-> [success |-> TRUE, message |-> message, user |-> Rest(d)]]

\* ------------------------------------------------------------- start-up
Init ==
  /\ env \in [MONGO_URI : ConfigValues, JWT_SECRET : ConfigValues]
  /\ proc = "starting"
  /\ users = {}
  /\ nextId = 1
  /\ now = 0
  /\ pc = [r \in Reqs |-> "idle"]
  /\ kind = [r \in Reqs |-> "none"]
  /\ body = [r \in Reqs |-> NoBody]
  /\ newUser = [r \in Reqs |-> {}]
  /\ saved = [r \in Reqs |-> "none"]
  /\ res = [r \in Reqs |-> NoRes]
  /\ pre = {}
  /\ last = 0
  /\ tokenless = {}

reqVars == <<pc, kind, body, newUser, saved, res, pre, last, tokenless>>

\* connectDB: a missing MONGO_URI, or a failed connection, ends the process.
connectDB ==
  /\ proc = "starting"
  /\ IF Falsy(env.MONGO_URI)
       THEN proc' = "exited"
       ELSE proc' \in {"connected", "exited"}
  /\ UNCHANGED <<env, users, nextId, now, reqVars>>

\* startServer: app.listen; EADDRINUSE ends the process, another listen
\* error is logged only.
startServer ==
  /\ proc = "connected"
  /\ proc' \in {"serving", "exited", "failed"}
  /\ UNCHANGED <<env, users, nextId, now, reqVars>>

Tick ==
  /\ now < MaxNow
  /\ now' = now + 1
  /\ UNCHANGED <<env, proc, users, nextId, reqVars>>

\* ------------------------------------------------------------- requests
InFlight(r) == pc[r] \in {"findOne", "save", "respond"}

Alone(r) == \A q \in Reqs \ {r} : ~InFlight(q)

\* Ids still to be handed to the signups that wait for their findOne.
Pending == Cardinality({q \in Reqs : kind[q] = "signup" /\ pc[q] = "findOne"})

\* A request arrives in the first free slot.  The model remembers the
\* requests answered since the latest arrival: the others are forgotten.
Arrive(r, k, b) ==
  /\ proc = "serving"
  /\ ~InFlight(r)
  /\ \A q \in Reqs : q < r => InFlight(q)
  /\ kind' = [q \in Reqs |-> IF q = r THEN k
                              ELSE IF InFlight(q) THEN kind[q] ELSE "none"]
  /\ body' = [q \in Reqs |-> IF q = r THEN b
                              ELSE IF InFlight(q) THEN body[q] ELSE NoBody]
  /\ newUser' = [q \in Reqs |-> IF InFlight(q) THEN newUser[q] ELSE {}]
  /\ saved' = [q \in Reqs |-> IF InFlight(q) THEN saved[q] ELSE "none"]
  /\ pre' = users
  /\ last' = r

\* What the arrival of request r leaves in pc and res for the other slots.
Others(f, r, idle) ==
  [q \in Reqs |-> IF q = r \/ InFlight(q) THEN f[q] ELSE idle]

\* signupController, up to `await User.findOne`.
SignupStart(r, b) ==
  /\ Arrive(r, "signup", b)
  /\ nextId + Pending <= MaxIds
  /\ IF Falsy(b.username) \/ Falsy(b.email) \/ Falsy(b.password)
       THEN /\ res' = [Others(res, r, NoRes) EXCEPT ![r] =
                         Json(400, "Username, email, and password are required!")]
            /\ pc' = [Others(pc, r, "idle") EXCEPT ![r] = "done"]
       ELSE /\ res' = [Others(res, r, NoRes) EXCEPT ![r] = NoRes]
            /\ pc' = [Others(pc, r, "idle") EXCEPT ![r] = "findOne"]
  /\ UNCHANGED <<env, proc, users, nextId, now, tokenless>>

\* signupController, from the answer of findOne up to `await newUser.save`.
SignupFound(r, salt) ==
  /\ kind[r] = "signup" /\ pc[r] = "findOne"
  /\ IF FindOne(users, body[r].email) # {}
       THEN /\ res' = [res EXCEPT ![r] =
                         Json(409, "User already exists, please login")]
            /\ pc' = [pc EXCEPT ![r] = "done"]
            /\ UNCHANGED <<newUser, nextId>>
       ELSE /\ newUser' = [newUser EXCEPT ![r] =
                 {User(nextId, body[r].username, body[r].email,
                       hashSync(body[r].password, salt))}]
            /\ nextId' = nextId + 1
            /\ pc' = [pc EXCEPT ![r] = "save"]
            /\ UNCHANGED res
  /\ UNCHANGED <<env, proc, users, now, kind, body, saved, pre, last,
                 tokenless>>

\* Mutant of Insert: no unique index at all.
InsertUnchecked(store, d) == store \cup {d}

\* The store executes the insert: the unique indexes of userSchema refuse a
\* document whose email or username is taken.
Insert(store, d) == IF DuplicateKey(store, d) THEN store ELSE store \cup {d}

Save(r) ==
  /\ kind[r] = "signup" /\ pc[r] = "save"
  /\ LET d == CHOOSE x \in newUser[r] : TRUE IN
       /\ users' = Insert(users, d)
       /\ saved' = [saved EXCEPT ![r] =
                      IF d \in Insert(users, d) THEN "ok" ELSE "E11000"]
  /\ pc' = [pc EXCEPT ![r] = "respond"]
  /\ UNCHANGED <<env, proc, nextId, now, kind, body, newUser, res, pre, last,
                 tokenless>>

\* Mutant of SignupRespond: the catch block deletes the record it saved.
SignupRespondRollback(r) ==
  /\ kind[r] = "signup" /\ pc[r] = "respond"
  /\ LET d == CHOOSE x \in newUser[r] : TRUE IN
       /\ res' = [res EXCEPT ![r] =
            IF saved[r] # "ok" \/ Falsy(env.JWT_SECRET)
              THEN Json(500, "Server error during signup!")
              ELSE JsonWithCookie(201, "User Created and Logged In Successfully",
                                  jwtSign(d._id, env.JWT_SECRET, now), d)]
       /\ tokenless' = IF saved[r] = "ok" /\ Falsy(env.JWT_SECRET)
                         THEN tokenless \cup {d._id} ELSE tokenless
       /\ users' = IF saved[r] = "ok" /\ Falsy(env.JWT_SECRET)
                     THEN users \ {d} ELSE users
  /\ pc' = [pc EXCEPT ![r] = "done"]
  /\ UNCHANGED <<env, proc, nextId, now, kind, body, newUser, saved, pre, last>>

\* signupController after `await newUser.save`: the catch block, or the
\* secret check, the token and the 201.
SignupRespond(r) ==
  /\ kind[r] = "signup" /\ pc[r] = "respond"
  /\ LET d == CHOOSE x \in newUser[r] : TRUE IN
       /\ res' = [res EXCEPT ![r] =
            IF saved[r] # "ok" \/ Falsy(env.JWT_SECRET)
              THEN Json(500, "Server error during signup!")
              ELSE JsonWithCookie(201, "User Created and Logged In Successfully",
                                  jwtSign(d._id, env.JWT_SECRET, now), d)]
       /\ tokenless' = IF saved[r] = "ok" /\ Falsy(env.JWT_SECRET)
                         THEN tokenless \cup {d._id} ELSE tokenless
  /\ pc' = [pc EXCEPT ![r] = "done"]
  /\ UNCHANGED <<env, proc, users, nextId, now, kind, body, newUser, saved,
                 pre, last>>

\* loginController, up to `await User.findOne`.
LoginStart(r, b) ==
  /\ Arrive(r, "login", b)
  /\ IF Falsy(b.email) \/ Falsy(b.password)
       THEN /\ res' = [Others(res, r, NoRes) EXCEPT ![r] =
                         Json(400, "Email and password are required!")]
            /\ pc' = [Others(pc, r, "idle") EXCEPT ![r] = "done"]
       ELSE /\ res' = [Others(res, r, NoRes) EXCEPT ![r] = NoRes]
            /\ pc' = [Others(pc, r, "idle") EXCEPT ![r] = "findOne"]
  /\ UNCHANGED <<env, proc, users, nextId, now, tokenless>>

\* Mutant of LoginResponse: the secret is checked before the password.
LoginResponseSecretFirst(found, password, secret, t) ==
  IF found = {} THEN Json(404, "User not found!")
  ELSE LET validUser == CHOOSE u \in found : TRUE IN
    IF Falsy(secret)
      THEN Json(500, "Internal server error during login.")
    ELSE IF ~compareSync(password, validUser.password)
      THEN Json(401, "Invalid credentials")
    ELSE JsonWithCookie(200, "Login Success",
                        jwtSign(validUser._id, secret, t), validUser)

LoginResponse(found, password, secret, t) ==
  IF found = {} THEN Json(404, "User not found!")
  ELSE LET validUser == CHOOSE u \in found : TRUE IN
    IF ~compareSync(password, validUser.password)
      THEN Json(401, "Invalid credentials")
    ELSE IF Falsy(secret)
      THEN Json(500, "Internal server error during login.")
    ELSE JsonWithCookie(200, "Login Success",
                        jwtSign(validUser._id, secret, t), validUser)

\* loginController, from the answer of findOne to the response.
LoginFound(r) ==
  /\ kind[r] = "login" /\ pc[r] = "findOne"
  /\ res' = [res EXCEPT ![r] =
       LoginResponse(FindOne(users, body[r].email), body[r].password,
                     env.JWT_SECRET, now)]
  /\ pc' = [pc EXCEPT ![r] = "done"]
  /\ UNCHANGED <<env, proc, users, nextId, now, kind, body, newUser, saved,
                 pre, last, tokenless>>

Continue(r) ==
  \/ \E salt \in Salts : SignupFound(r, salt)
  \/ Save(r)
  \/ SignupRespond(r)
  \/ LoginFound(r)

Boot == connectDB \/ startServer

\* Requests one after the other.
Next ==
  \/ Boot
  \/ Tick
  \/ \E r \in Reqs : Alone(r) /\ \E b \in SignupBodies : SignupStart(r, b)
  \/ \E r \in Reqs : Alone(r) /\ \E b \in LoginBodies : LoginStart(r, b)
  \/ \E r \in Reqs : Continue(r)

Spec == Init /\ [][Next]_vars

\* Signups overlapping at the awaits.  Only a signup that passes validation
\* reaches the store, so these are the requests whose interleavings matter;
\* they all carry the same password, and the clock (which only stamps the
\* tokens) stands still.
ConcBodies == [username : Names, email : Emails, password : {"p1"}]

NextConc ==
  \/ Boot
  \/ \E r \in Reqs : \E b \in ConcBodies : SignupStart(r, b)
  \/ \E r \in Reqs : \E salt \in Salts : SignupFound(r, salt)
  \/ \E r \in Reqs : Save(r)
  \/ \E r \in Reqs : SignupRespond(r)

SpecConc == Init /\ [][NextConc]_vars

\* ------------------------------------------------------------- properties
\* The request that arrived last and has been answered.  Under Spec no other
\* request runs between its arrival and its response, so `pre` is the
\* collection the request found and `users` the one it left.
Answered(r, k) == r = last /\ kind[r] = k /\ pc[r] = "done"

AllPresent(b) == b.username \notin {Absent, ""} /\ b.email \notin {Absent, ""}
                 /\ b.password \notin {Absent, ""}

EmailIn(store, b) == \E u \in store : u.email = b.email
UsernameIn(store, b) == \E u \in store : u.username = b.username

TokenCookies(r) == {c \in res[r].cookies : c.name = "X_TTMS_access_token"}

\* C1: a signup with a missing or empty username, email or password is
\* answered 400, sets no cookie and leaves the collection as it found it.
C1_MissingField400 ==
  \A r \in Reqs :
    (Answered(r, "signup") /\ ~AllPresent(body[r]))
      => /\ res[r].status = 400
         /\ res[r].cookies = {}
         /\ users = pre

\* The case of C1 on a collection that holds a record: an empty email.
C1_Witness ==
  \E r \in Reqs :
    /\ Answered(r, "signup") /\ body[r].email = ""
    /\ body[r].username \in Names /\ body[r].password \in Passwords
    /\ pre # {} /\ res[r].status = 400

\* C2: a signup with all three fields whose email is the email of a stored
\* record is answered 409 and leaves every record as it was, adding none.
C2_DuplicateEmail409 ==
  \A r \in Reqs :
    (Answered(r, "signup") /\ AllPresent(body[r]) /\ EmailIn(pre, body[r]))
      => /\ res[r].status = 409
         /\ users = pre

C2_Witness ==
  \E r \in Reqs :
    /\ Answered(r, "signup") /\ AllPresent(body[r]) /\ EmailIn(pre, body[r])
    /\ ~UsernameIn(pre, body[r])
    /\ res[r].status = 409

\* C3: a signup with all three fields, an email and a username that no stored
\* record uses, and the signing secret configured adds exactly one record,
\* whose password is a digest that differs from the plaintext and that
\* compareSync accepts for the plaintext; the response is 201, carries the
\* token cookie bound to the new record's id, and its user has no password.
C3_SignupCreates ==
  \A r \in Reqs :
    (/\ Answered(r, "signup") /\ AllPresent(body[r])
     /\ ~EmailIn(pre, body[r]) /\ ~UsernameIn(pre, body[r])
     /\ ~Falsy(env.JWT_SECRET))
      => \E d \in users :
           /\ d \notin pre /\ users = pre \cup {d}
           /\ d.username = body[r].username /\ d.email = body[r].email
           /\ d.password # body[r].password
           /\ compareSync(body[r].password, d.password)
           /\ res[r].status = 201
           /\ Cardinality(res[r].cookies) = 1
           /\ \A c \in res[r].cookies :
                c.name = "X_TTMS_access_token" /\ c.value.id = d._id
           /\ "password" \notin DOMAIN res[r].body.user
           /\ res[r].body.user._id = d._id

\* The case of C3 on a collection that already holds another record.
C3_Witness ==
  \E r \in Reqs :
    /\ Answered(r, "signup") /\ AllPresent(body[r])
    /\ pre # {} /\ ~EmailIn(pre, body[r]) /\ ~UsernameIn(pre, body[r])
    /\ ~Falsy(env.JWT_SECRET)
    /\ res[r].status = 201

\* C4: a login whose email matches a stored record and whose password
\* verifies against that record's digest, with the signing secret configured,
\* is answered 200 with a cookie whose token names that record's id (and no
\* other record's) and expires 4 days after its issuance; the returned user
\* has no password field and the collection is as the request found it.
C4_LoginSucceeds ==
  \A r \in Reqs : \A u \in pre :
    (/\ Answered(r, "login") /\ u.email = body[r].email
     /\ compareSync(body[r].password, u.password)
     /\ ~Falsy(env.JWT_SECRET))
      => /\ res[r].status = 200
         /\ Cardinality(TokenCookies(r)) = 1
         /\ \A c \in res[r].cookies :
              /\ c.value.id = u._id
              /\ \A v \in users : v # u => c.value.id # v._id
              /\ c.value.exp = c.value.iat + 4 * 24 * 60 * 60
              /\ c.value.iat <= now
         /\ "password" \notin DOMAIN res[r].body.user
         /\ users = pre

\* The case of C4 with a second record in the collection.
C4_Witness ==
  \E r \in Reqs : \E u \in pre :
    /\ Answered(r, "login") /\ u.email = body[r].email
    /\ compareSync(body[r].password, u.password)
    /\ Cardinality(pre) = 2 /\ u._id = 2
    /\ res[r].status = 200

\* C5: a login with both fields whose email matches a stored record but whose
\* password does not verify against that record's digest is answered 401 and
\* gets no token and no cookie, whatever the signing secret.
C5_WrongPassword401 ==
  \A r \in Reqs : \A u \in pre :
    (/\ Answered(r, "login")
     /\ ~Falsy(body[r].email) /\ ~Falsy(body[r].password)
     /\ u.email = body[r].email
     /\ ~compareSync(body[r].password, u.password))
      => /\ res[r].status = 401
         /\ res[r].cookies = {}
         /\ DOMAIN res[r].body = {"success", "message"}

\* The case of C5 with the signing secret not configured.
C5_Witness ==
  \E r \in Reqs : \E u \in pre :
    /\ Answered(r, "login") /\ ~Falsy(body[r].password)
    /\ u.email = body[r].email
    /\ ~compareSync(body[r].password, u.password)
    /\ Falsy(env.JWT_SECRET)
    /\ res[r].status = 401

\* C6: a login with both fields whose email matches no stored record is
\* answered 404, gets no token, and leaves the collection as it found it.
C6_UnknownEmail404 ==
  \A r \in Reqs :
    (/\ Answered(r, "login")
     /\ ~Falsy(body[r].email) /\ ~Falsy(body[r].password)
     /\ ~EmailIn(pre, body[r]))
      => /\ res[r].status = 404
         /\ res[r].cookies = {}
         /\ users = pre

\* The case of C6 on a collection that holds a record with that password.
C6_Witness ==
  \E r \in Reqs : \E u \in pre :
    /\ Answered(r, "login") /\ body[r].email \in Emails
    /\ ~EmailIn(pre, body[r])
    /\ compareSync(body[r].password, u.password)
    /\ res[r].status = 404

\* C7: whatever the interleaving of signups, no two stored records share an
\* email or a username, and of two signups with the same email that have both
\* been answered at most one got 201.
C7_UniqueUnderRaces ==
  /\ \A u \in users : \A v \in users :
       u # v => u.email # v.email /\ u.username # v.username
  /\ \A e \in Emails : Cardinality({u \in users : u.email = e}) <= 1
  /\ \A r \in Reqs : \A q \in Reqs :
       (/\ r # q
        /\ kind[r] = "signup" /\ pc[r] = "done"
        /\ kind[q] = "signup" /\ pc[q] = "done"
        /\ body[r].email = body[q].email)
         => ~(res[r].status = 201 /\ res[q].status = 201)

\* The race of C7: two signups with the same email both found it free; the
\* store accepted one insert and refused the other.
C7_Witness ==
  \E r \in Reqs : \E q \in Reqs :
    /\ r # q /\ body[r].email = body[q].email
    /\ kind[r] = "signup" /\ pc[r] = "done" /\ res[r].status = 201
    /\ kind[q] = "signup" /\ pc[q] = "done" /\ saved[q] = "E11000"

\* C8: no request is handled by a process that lacks the database URI or the
\* signing secret (such a process exits before it serves).
C8_NoServingWithoutConfig ==
  \A r \in Reqs :
    kind[r] # "none" => ~Falsy(env.MONGO_URI) /\ ~Falsy(env.JWT_SECRET)

\* What a saved signup that fails to issue its token leaves behind: the
\* response is 500 without cookie and the record is in the collection, with
\* its digest.
TokenlessKept ==
  \A r \in Reqs :
    (/\ Answered(r, "signup") /\ saved[r] = "ok" /\ Falsy(env.JWT_SECRET))
      => /\ res[r].status = 500
         /\ res[r].cookies = {}
         /\ newUser[r] \subseteq users
         /\ \A d \in newUser[r] :
              /\ d._id \in tokenless
              /\ compareSync(body[r].password, d.password)

\* A later signup found, under its own email, a record that an earlier signup
\* saved before failing to issue its token.
LaterSignup(r) ==
  /\ Answered(r, "signup")
  /\ \E u \in pre : u._id \in tokenless /\ u.email = body[r].email

\* C9 as claimed: a saved signup whose token issuance fails is answered 500
\* without cookie, its record stays in the collection, and every later signup
\* with the same email is answered 409.
C9_Original ==
  /\ TokenlessKept
  /\ \A i \in tokenless : \E u \in users : u._id = i
  /\ \A r \in Reqs : LaterSignup(r) => res[r].status = 409

\* C9 as amended: a saved signup whose token issuance fails is answered 500
\* without cookie, its record stays in the collection, and every later signup
\* with the same email and all three fields present is answered 409 (one
\* with a field missing is answered 400).
C9_TokenlessAccountStays ==
  /\ TokenlessKept
  /\ \A i \in tokenless : \E u \in users : u._id = i
  /\ \A r \in Reqs :
       LaterSignup(r) =>
         res[r].status = IF AllPresent(body[r]) THEN 409 ELSE 400

C9_Witness ==
  \E r \in Reqs :
    /\ LaterSignup(r) /\ AllPresent(body[r])
    /\ res[r].status = 409

\* C10: a signup with all three fields whose email matches no stored record
\* but whose username is the username of one is refused by the store's
\* unique index: no record is added, no cookie is set, the response is 500.
C10_DuplicateUsername500 ==
  \A r \in Reqs :
    (/\ Answered(r, "signup") /\ AllPresent(body[r])
     /\ ~EmailIn(pre, body[r]) /\ UsernameIn(pre, body[r]))
      => /\ saved[r] = "E11000"
         /\ users = pre
         /\ res[r].cookies = {}
         /\ res[r].status = 500

\* The case of C10 with the signing secret configured.
C10_Witness ==
  \E r \in Reqs :
    /\ Answered(r, "signup") /\ AllPresent(body[r])
    /\ ~EmailIn(pre, body[r]) /\ UsernameIn(pre, body[r])
    /\ ~Falsy(env.JWT_SECRET)
    /\ res[r].status = 500

====
